---- MODULE Spec2Model ----
(***************************************************************************)
(* Model of my_model_selectors.py: the four model selectors               *)
(* (SelectorConstant, SelectorBIC, SelectorDIC, SelectorCV), their shared *)
(* base_model() and the anti-likelihood cache file of SelectorDIC.        *)
(*                                                                         *)
(* hmmlearn's GaussianHMM is a black box: whether a fit or a score        *)
(* succeeds, and the log-likelihood a score returns, are inputs of a      *)
(* select() call, drawn from small sets.  Log-likelihoods are integers;   *)
(* a quotient (the mean of the fold scores, the DIC average) is kept as   *)
(* an exact fraction; ln(N) is in thousandths (LnMilli).                   *)
(***************************************************************************)
EXTENDS Integers, Sequences, FiniteSets, TLC

VARIABLES
    policy,      \* the selector class the caller trains its words with
    cacheFile,   \* ./reference_dictionary_anti_propabilities.npy
    saves,       \* number of np.save calls that completed
    sel,         \* the selector object of the sequential caller
    result,      \* what its select() did
    pc,          \* concurrent callers: position of each in SelectorDIC.select
    rsel,        \* concurrent callers: the selector object of each
    rref,        \* concurrent callers: reference_dictionary_anti_propabilities[0]
    rres,        \* concurrent callers: what select() did
    lastWriter   \* concurrent callers: whose np.save wrote the file last

vars == <<policy, cacheFile, saves, sel, result, pc, rsel, rref, rres, lastWriter>>

seqVars == <<policy, sel, result>>
raceVars == <<pc, rsel, rref, rres, lastWriter>>

----------------------------------------------------------------------------
(* Bounds of the model *)

MaxWords == 3
MaxLL == 2
MaxStates == 3
MaxSeq == 3
MaxFrames == 2
MaxDim == 2
MaxSaves == 2

(* Program constants *)

MinStates == 2
NSplits == 2
FallbackStates == 3

----------------------------------------------------------------------------
(* The inputs of a call *)

Labels == 1..MaxWords

\* all_word_sequences / all_word_Xlengths: a corpus of one label, or of all
Corpora == {1..1, 1..MaxWords}

\* [min_n_components, max_n_components]
Ranges == {r \in (MinStates..MaxStates) \X (MinStates..MaxStates) : r[1] <= r[2]}

\* the lengths list of the target label: one frame count per sequence
Shapes == {[i \in 1..k |-> f] : k \in 0..MaxSeq, f \in 1..MaxFrames}

LLVals == (0 - MaxLL)..(0 - 1)

\* What base_model(n) followed by .score(...) does: the fit fails
\* (base_model returns None), the score raises, or a log-likelihood comes back.
NoFit == [fit |-> FALSE, scored |-> FALSE, ll |-> 0]
NoScore == [fit |-> TRUE, scored |-> FALSE, ll |-> 0]
Outcomes == {NoFit, NoScore} \cup {[fit |-> TRUE, scored |-> TRUE, ll |-> v] : v \in LLVals}

RECURSIVE SumSeq(_)
SumSeq(s) == IF s = <<>> THEN 0 ELSE Head(s) + SumSeq(Tail(s))

\* len(self.X): the rows of the stacked feature matrix
Frames(s) == SumSeq(s.lengths)

\* A fit on an empty feature matrix fails.
OutcomesFor(s) == IF Frames(s) = 0 THEN {NoFit} ELSE Outcomes
FitsFor(s) == IF Frames(s) = 0 THEN {FALSE} ELSE BOOLEAN

Candidates(s) == s.lo..s.hi

----------------------------------------------------------------------------
(* Scores and the score table *)

Frac(num, den) == [num |-> num, den |-> den]

\* a < b for fractions with positive denominators
Less(a, b) == a.num * b.den < b.num * a.den

Entry(n, score) == [n |-> n, score |-> score]

\* min(table, key=table.get): the first entry, in insertion order, that no
\* later entry beats
RECURSIVE PyMinFrom(_, _, _)
PyMinFrom(table, i, best) ==
    IF i > Len(table) THEN best
    ELSE PyMinFrom(table, i + 1,
                   IF Less(table[i].score, table[best].score) THEN i ELSE best)

PyMin(table) == table[PyMinFrom(table, 2, 1)].n

\* variant: a later entry with an equal score replaces the best one
RECURSIVE PyMaxLast(_, _, _)
PyMaxLast(table, i, best) ==
    IF i > Len(table) THEN best
    ELSE PyMaxLast(table, i + 1,
                   IF Less(table[i].score, table[best].score) THEN best ELSE i)

RECURSIVE PyMaxFrom(_, _, _)
PyMaxFrom(table, i, best) ==
    IF i > Len(table) THEN best
    ELSE PyMaxFrom(table, i + 1,
                   IF Less(table[best].score, table[i].score) THEN i ELSE best)

PyMax(table) == table[PyMaxFrom(table, 2, 1)].n

----------------------------------------------------------------------------
(* ModelSelector *)

NoSel ==
    [kind |-> "none", this_word |-> 0, words |-> {}, sameObject |-> TRUE,
     lo |-> 0, hi |-> 0, n_constant |-> 0, lengths |-> <<>>, dim |-> 0]

\* __init__
Selector(kind, word, words, same, lo, hi, nc, lengths, dim) ==
    [kind |-> kind, this_word |-> word, words |-> words, sameObject |-> same,
     lo |-> lo, hi |-> hi, n_constant |-> nc, lengths |-> lengths, dim |-> dim]

NoModel == [states |-> 0, fitOn |-> {}]

\* base_model(num_states): a model fitted on self.X, self.lengths, that is on
\* every sequence of the target label, or None
base_model(s, num_states, fitOK) ==
    IF fitOK THEN [states |-> num_states, fitOn |-> 1..Len(s.lengths)]
    ELSE NoModel

NoResult ==
    [kind |-> "none", outcome |-> "none", pick |-> 0, model |-> NoModel,
     table |-> <<>>, fits |-> 0, buildFits |-> 0, loaded |-> FALSE,
     ref |-> <<>>, own |-> <<>>, folds |-> <<>>]

\* variant: the winner is fitted once to test it and once more to return it
ReturnBestRefitTwice(s, r, pick, refitOK) ==
    IF r.table = <<>> THEN [r EXCEPT !.outcome = "none"]
    ELSE LET m == base_model(s, pick, refitOK)
         IN [r EXCEPT !.pick = pick, !.model = m, !.fits = @ + 2,
                      !.outcome = IF m = NoModel THEN "none" ELSE "model"]

\* the end of select(): the table is empty (None), or the winner is re-fitted
ReturnBest(s, r, pick, refitOK) ==
    IF r.table = <<>> THEN [r EXCEPT !.outcome = "none"]
    ELSE LET m == base_model(s, pick, refitOK)
         IN [r EXCEPT !.pick = pick, !.model = m, !.fits = @ + 1,
                      !.outcome = IF m = NoModel THEN "none" ELSE "model"]

----------------------------------------------------------------------------
(* SelectorConstant *)

ConstantSelect(s, fitOK) ==
    LET m == base_model(s, s.n_constant, fitOK)
    IN [NoResult EXCEPT !.kind = "Constant", !.pick = s.n_constant, !.model = m,
                        !.fits = 1,
                        !.outcome = IF m = NoModel THEN "none" ELSE "model"]

----------------------------------------------------------------------------
(* SelectorBIC *)

\* np.log(len(self.X)) in thousandths
LnMilli(N) ==
    <<0, 693, 1099, 1386, 1609, 1792, 1946, 2079, 2197, 2303, 2398, 2485>>[N]

\* variant: the normalisation constraint is not subtracted
FreeParamsNoNorm(n, d) == n * n + 2 * d * n

\* p = n^2 + 2*d*n - 1
FreeParams(n, d) == n * n + 2 * d * n - 1

\* -2 * logL + p * log(N), in thousandths
BICScore(logL, n, d, N) ==
    Frac(0 - 2 * logL * 1000 + FreeParams(n, d) * LnMilli(N), 1)

\* the candidate loop; acc is the state of the call, acc.outcome = "raise"
\* once an exception has left the loop
RECURSIVE BICLoop(_, _, _, _)
BICLoop(s, own, n, acc) ==
    IF n > s.hi THEN acc
    ELSE IF Frames(s) = 0 THEN [acc EXCEPT !.outcome = "raise"]
    ELSE LET o == own[n]
             a1 == [acc EXCEPT !.fits = @ + 1]
         IN IF o.fit /\ o.scored
            THEN BICLoop(s, own, n + 1,
                     [a1 EXCEPT !.table =
                         Append(@, Entry(n, BICScore(o.ll, n, s.dim, Frames(s))))])
            ELSE BICLoop(s, own, n + 1, a1)

BICSelect(s, own, refitOK) ==
    LET r == BICLoop(s, own, s.lo, [NoResult EXCEPT !.kind = "BIC", !.own = own])
    IN IF r.outcome = "raise" THEN r
       ELSE ReturnBest(s, r, IF r.table = <<>> THEN 0 ELSE PyMin(r.table), refitOK)

----------------------------------------------------------------------------
(* SelectorCV *)

\* KFold(2).split(self.sequences) raises when there are fewer sequences than folds
SplitFails(nseq) == nseq < NSplits

FoldSize(nseq, i) == (nseq \div NSplits) + (IF i <= nseq % NSplits THEN 1 ELSE 0)

FoldStart(nseq, i) ==
    (i - 1) * (nseq \div NSplits)
    + (IF i - 1 < nseq % NSplits THEN i - 1 ELSE nseq % NSplits) + 1

\* cv_test_idx of fold i: a block of consecutive sequences
TestIdx(nseq, i) == FoldStart(nseq, i)..(FoldStart(nseq, i) + FoldSize(nseq, i) - 1)

\* the (cv_train_idx, cv_test_idx) pairs KFold(2) yields
KFoldSplit(nseq) ==
    [i \in 1..NSplits |->
        [train |-> (1..nseq) \ TestIdx(nseq, i), test |-> TestIdx(nseq, i)]]

\* one outcome per fold, or the one outcome of the fallback pass
Passes(s) == IF SplitFails(Len(s.lengths)) THEN 1..1 ELSE 1..NSplits

\* the loop over the folds for candidate n: acc.scores is lp_n_components,
\* acc.folds logs, for every model that was scored, the folds and the
\* sequences the model was fitted on
RECURSIVE CVFolds(_, _, _, _, _)
CVFolds(s, n, fo, i, acc) ==
    IF i > NSplits THEN acc
    ELSE LET f == KFoldSplit(Len(s.lengths))[i]
             m == base_model(s, n, fo[i].fit)
             a1 == [acc EXCEPT !.fits = @ + 1]
             a2 == IF m = NoModel THEN a1
                   ELSE [a1 EXCEPT !.folds =
                            Append(@, [n |-> n, train |-> f.train, test |-> f.test,
                                       fitOn |-> m.fitOn])]
         IN CVFolds(s, n, fo, i + 1,
                    IF fo[i].fit /\ fo[i].scored
                    THEN [a2 EXCEPT !.scores = Append(@, fo[i].ll)]
                    ELSE a2)

\* the except branch: one fit with 3 states scored on the label's full data
CVFallback(s, o, acc) ==
    LET m == base_model(s, FallbackStates, o.fit)
        a1 == [acc EXCEPT !.fits = @ + 1]
    IN IF o.fit /\ o.scored THEN [a1 EXCEPT !.scores = Append(@, o.ll)] ELSE a1

\* lp[num_components] = np.sum(lp_n_components) / len(lp_n_components)
MeanScore(scores) == Frac(SumSeq(scores), Len(scores))

RECURSIVE CVLoop(_, _, _, _)
CVLoop(s, cv, n, acc) ==
    IF n > s.hi THEN acc
    ELSE LET a0 == [scores |-> <<>>, folds |-> acc.folds, fits |-> acc.fits]
             a1 == IF SplitFails(Len(s.lengths))
                   THEN CVFallback(s, cv[n][1], a0)
                   ELSE CVFolds(s, n, cv[n], 1, a0)
             a2 == [acc EXCEPT !.fits = a1.fits, !.folds = a1.folds]
         IN CVLoop(s, cv, n + 1,
                   IF a1.scores = <<>> THEN a2
                   ELSE [a2 EXCEPT !.table = Append(@, Entry(n, MeanScore(a1.scores)))])

CVSelect(s, cv, refitOK) ==
    LET r == CVLoop(s, cv, s.lo, [NoResult EXCEPT !.kind = "CV", !.own = cv])
    IN ReturnBest(s, r, IF r.table = <<>> THEN 0 ELSE PyMax(r.table), refitOK)

----------------------------------------------------------------------------
(* SelectorDIC *)

Absent == [state |-> "absent", data |-> <<>>]
Partial == [state |-> "partial", data |-> <<>>]
Saved(d) == [state |-> "saved", data |-> d]

\* variant: np.load looks for the file under another name than np.save wrote
LoadNever(file) == FALSE

\* np.load succeeds on a file that np.save completed
LoadOK(file) == file.state = "saved"

\* '{}_{}'.format(num_components, word)
Key(n, word) == <<n, word>>

\* the log-likelihood the library reports for the data of label w under the
\* n-state model fitted on the data of label t
LibScore(t, n, w) == 0 - (t + n + w)

\* the cache-build pass: every model is fitted on self.X, the target's data,
\* and scored on the data of word; a failure stores 0
BuildCache(s, buildFit) ==
    [k \in Candidates(s) \X s.words |->
        LET m == base_model(s, k[1], buildFit[k[1]])
        IN IF m = NoModel THEN 0 ELSE LibScore(s.this_word, k[1], k[2])]

\* base_model calls of the cache-build pass
BuildFits(s) == (s.hi - s.lo + 1) * Cardinality(s.words)

\* reference_dictionary_anti_propabilities[0][key], a KeyError adds nothing
Lookup(ref, n, word) == IF Key(n, word) \in DOMAIN ref THEN ref[Key(n, word)] ELSE 0

\* word is not self.this_word: an identity test; an equal string that is
\* another object than the dictionary key is "not" the target
IsNot(word, s) == word # s.this_word \/ ~s.sameObject

\* avg_like_prop after the loop over self.words
RECURSIVE AntiSum(_, _, _, _)
AntiSum(s, ref, n, ws) ==
    IF ws = {} THEN 0
    ELSE LET w == CHOOSE x \in ws : TRUE
         IN (IF IsNot(w, s) THEN Lookup(ref, n, w) ELSE 0)
            + AntiSum(s, ref, n, ws \ {w})

\* like_prop - (1 / (len(self.words) - 1)) * avg_like_prop
DICScore(like, antiSum, L) == Frac(like * (L - 1) - antiSum, L - 1)

RECURSIVE DICLoop(_, _, _, _, _)
DICLoop(s, ref, own, n, acc) ==
    IF n > s.hi THEN acc
    ELSE LET o == own[n]
             a1 == [acc EXCEPT !.fits = @ + 1]
             L == Cardinality(s.words)
         IN IF ~(o.fit /\ o.scored) THEN DICLoop(s, ref, own, n + 1, a1)
            ELSE IF L - 1 = 0 THEN [a1 EXCEPT !.outcome = "raise"]
            ELSE DICLoop(s, ref, own, n + 1,
                     [a1 EXCEPT !.table =
                         Append(@, Entry(n, DICScore(o.ll, AntiSum(s, ref, n, s.words), L)))])

\* the candidate loop and the return, with the cache ref in memory
DICScorePass(s, ref, own, refitOK, r0) ==
    LET r == DICLoop(s, ref, own, s.lo, [r0 EXCEPT !.ref = ref, !.own = own])
    IN IF r.outcome = "raise" THEN r
       ELSE ReturnBest(s, r, IF r.table = <<>> THEN 0 ELSE PyMax(r.table), refitOK)

\* the state of a call after the try/except around np.load
DICAfterLoad(s, file) ==
    [NoResult EXCEPT !.kind = "DIC", !.loaded = LoadOK(file),
                     !.buildFits = IF LoadOK(file) THEN 0 ELSE BuildFits(s),
                     !.fits = IF LoadOK(file) THEN 0 ELSE BuildFits(s)]

\* the cache the scoring pass reads
DICRef(s, file, buildFit) == IF LoadOK(file) THEN file.data ELSE BuildCache(s, buildFit)

\* the file after the call
DICFile(s, file, buildFit) == IF LoadOK(file) THEN file ELSE Saved(BuildCache(s, buildFit))

DICSelect(s, file, buildFit, own, refitOK) ==
    DICScorePass(s, DICRef(s, file, buildFit), own, refitOK, DICAfterLoad(s, file))

----------------------------------------------------------------------------
(* The sequential caller: construct a selector, call select(), drop it *)

\* the selectors a caller can construct; only the fields a policy reads vary
Selectors(kind) ==
    CASE kind = "Constant" ->
           {Selector(kind, 1, {1}, TRUE, MinStates, MinStates, nc, sh, 1) :
               nc \in MinStates..MaxStates, sh \in Shapes}
      [] kind = "BIC" ->
           {Selector(kind, 1, {1}, TRUE, x[1][1], x[1][2], FallbackStates, x[2], x[3]) :
               x \in Ranges \X Shapes \X (1..MaxDim)}
      [] kind = "CV" ->
           {Selector(kind, 1, {1}, TRUE, x[1][1], x[1][2], FallbackStates,
                     [i \in 1..x[2] |-> 1], 1) :
               x \in Ranges \X (0..MaxSeq)}
      [] kind = "DIC" ->
           {Selector(kind, x[1], x[2], x[3], x[4][1], x[4][2], FallbackStates, <<1>>, 1) :
               x \in {y \in Labels \X Corpora \X BOOLEAN \X Ranges : y[1] \in y[2]}}

New ==
    /\ sel = NoSel
    /\ \E s \in Selectors(policy) : sel' = s
    /\ UNCHANGED <<policy, cacheFile, saves, result>>
    /\ UNCHANGED raceVars

SelectConstant ==
    /\ sel.kind = "Constant" /\ result = NoResult
    /\ \E fitOK \in FitsFor(sel) : result' = ConstantSelect(sel, fitOK)
    /\ UNCHANGED <<policy, cacheFile, saves, sel>>
    /\ UNCHANGED raceVars

SelectBIC ==
    /\ sel.kind = "BIC" /\ result = NoResult
    /\ \E own \in [Candidates(sel) -> OutcomesFor(sel)] : \E refitOK \in BOOLEAN :
          result' = BICSelect(sel, own, refitOK)
    /\ UNCHANGED <<policy, cacheFile, saves, sel>>
    /\ UNCHANGED raceVars

SelectCV ==
    /\ sel.kind = "CV" /\ result = NoResult
    /\ \E cv \in [Candidates(sel) -> [Passes(sel) -> OutcomesFor(sel)]] :
       \E refitOK \in FitsFor(sel) :
          result' = CVSelect(sel, cv, refitOK)
    /\ UNCHANGED <<policy, cacheFile, saves, sel>>
    /\ UNCHANGED raceVars

\* the fit outcomes of the cache-build pass: one per candidate, as every word's
\* model is the same fit of self.X; none is drawn when the file loads
BuildOutcomes(s, file) ==
    IF LoadOK(file) THEN {[n \in Candidates(s) |-> TRUE]}
    ELSE [Candidates(s) -> BOOLEAN]

SelectDIC ==
    /\ sel.kind = "DIC" /\ result = NoResult
    /\ saves < MaxSaves
    /\ \E buildFit \in BuildOutcomes(sel, cacheFile) :
       \E own \in [Candidates(sel) -> Outcomes] : \E refitOK \in BOOLEAN :
          /\ result' = DICSelect(sel, cacheFile, buildFit, own, refitOK)
          /\ cacheFile' = DICFile(sel, cacheFile, buildFit)
          /\ saves' = IF LoadOK(cacheFile) THEN saves ELSE saves + 1
    /\ UNCHANGED <<policy, sel>>
    /\ UNCHANGED raceVars

\* the caller keeps the returned model (or None) and drops the selector
Discard ==
    /\ result # NoResult
    /\ sel' = NoSel /\ result' = NoResult
    /\ UNCHANGED <<policy, cacheFile, saves>>
    /\ UNCHANGED raceVars

Procs == {1, 2}

Policies == {"Constant", "BIC", "CV", "DIC"}

\* a caller that trains its words one after the other with one policy,
\* started in a directory that holds no cache file
Init ==
    /\ policy \in Policies
    /\ cacheFile = Absent /\ saves = 0
    /\ sel = NoSel /\ result = NoResult
    /\ pc = [p \in Procs |-> "idle"]
    /\ rsel = [p \in Procs |-> NoSel]
    /\ rref = [p \in Procs |-> <<>>]
    /\ rres = [p \in Procs |-> NoResult]
    /\ lastWriter = 0

Next ==
    \/ New
    \/ SelectConstant
    \/ SelectBIC
    \/ SelectCV
    \/ SelectDIC
    \/ Discard

Spec == Init /\ [][Next]_vars

----------------------------------------------------------------------------
(* Two concurrent callers of SelectorDIC.select(), one per target label,   *)
(* that share the cache file.  A step is one statement of select():        *)
(* np.load, the cache-build loops, np.save (which opens the file for       *)
(* writing, truncating it, and then writes it), the scoring pass.          *)

RLoad(p) ==
    /\ pc[p] = "load"
    /\ rres' = [rres EXCEPT ![p] = DICAfterLoad(rsel[p], cacheFile)]
    /\ IF LoadOK(cacheFile)
       THEN /\ rref' = [rref EXCEPT ![p] = cacheFile.data]
            /\ pc' = [pc EXCEPT ![p] = "score"]
       ELSE /\ pc' = [pc EXCEPT ![p] = "build"]
            /\ UNCHANGED rref
    /\ UNCHANGED <<cacheFile, saves, rsel, lastWriter>>
    /\ UNCHANGED seqVars

RBuild(p) ==
    /\ pc[p] = "build"
    /\ \E buildFit \in [Candidates(rsel[p]) -> BOOLEAN] :
          rref' = [rref EXCEPT ![p] = BuildCache(rsel[p], buildFit)]
    /\ pc' = [pc EXCEPT ![p] = "open"]
    /\ UNCHANGED <<cacheFile, saves, rsel, rres, lastWriter>>
    /\ UNCHANGED seqVars

RSaveOpen(p) ==
    /\ pc[p] = "open"
    /\ cacheFile' = Partial
    /\ pc' = [pc EXCEPT ![p] = "write"]
    /\ UNCHANGED <<saves, rsel, rref, rres, lastWriter>>
    /\ UNCHANGED seqVars

\* variant: np.save guarded by a test that no complete file exists yet
RSaveWriteIfAbsent(p) ==
    /\ pc[p] = "write"
    /\ IF LoadOK(cacheFile)
       THEN UNCHANGED <<cacheFile, saves, lastWriter>>
       ELSE /\ cacheFile' = Saved(rref[p])
            /\ saves' = saves + 1
            /\ lastWriter' = p
    /\ pc' = [pc EXCEPT ![p] = "score"]
    /\ UNCHANGED <<rsel, rref, rres>>
    /\ UNCHANGED seqVars

RSaveWrite(p) ==
    /\ pc[p] = "write"
    /\ cacheFile' = Saved(rref[p])
    /\ saves' = saves + 1
    /\ lastWriter' = p
    /\ pc' = [pc EXCEPT ![p] = "score"]
    /\ UNCHANGED <<rsel, rref, rres>>
    /\ UNCHANGED seqVars

RScore(p) ==
    /\ pc[p] = "score"
    /\ \E own \in [Candidates(rsel[p]) -> Outcomes] : \E refitOK \in BOOLEAN :
          rres' = [rres EXCEPT ![p] =
                      DICScorePass(rsel[p], rref[p], own, refitOK, rres[p])]
    /\ pc' = [pc EXCEPT ![p] = "done"]
    /\ UNCHANGED <<cacheFile, saves, rsel, rref, lastWriter>>
    /\ UNCHANGED seqVars

\* the candidate range of the concurrent callers
RaceRange == <<MinStates, MinStates + 1>>

InitRace ==
    /\ policy = "DIC"
    /\ cacheFile = Absent /\ saves = 0
    /\ sel = NoSel /\ result = NoResult
    /\ pc = [p \in Procs |-> "load"]
    /\ rsel = [p \in Procs |->
                  Selector("DIC", p, Labels, TRUE, RaceRange[1], RaceRange[2],
                           FallbackStates, <<1>>, 1)]
    /\ rref = [p \in Procs |-> <<>>]
    /\ rres = [p \in Procs |-> NoResult]
    /\ lastWriter = 0

NextRace ==
    \E p \in Procs :
        \/ RLoad(p)
        \/ RBuild(p)
        \/ RSaveOpen(p)
        \/ RSaveWrite(p)
        \/ RScore(p)

SpecRace == InitRace /\ [][NextRace]_vars

----------------------------------------------------------------------------
(* Properties *)

\* a select() call of the sequential caller has ended
Called(kind) == result # NoResult /\ sel.kind = kind

R(s) == s.hi - s.lo + 1

Keys(table) == {table[i].n : i \in 1..Len(table)}

ScoreOf(table, n) == (CHOOSE i \in 1..Len(table) : table[i].n = n)

SameValue(a, b) == a.num * b.den = b.num * a.den

Ascending(table) == \A i, j \in 1..Len(table) : i < j => table[i].n < table[j].n

Succeeded(o) == o.fit /\ o.scored

RECURSIVE SetSum(_, _)
SetSum(f, S) ==
    IF S = {} THEN 0
    ELSE LET x == CHOOSE y \in S : TRUE IN f[x] + SetSum(f, S \ {x})

\* C1: select() never raises: every call ends with a fitted model or None.
C1_NeverRaises == result.outcome \in {"none", "model"}

\* C2: in SelectorCV every model scored on a held-out fold was fitted on that
\* fold's training sequences only; the score of n is the mean of the scores of
\* the folds that succeeded, and n has no entry when no fold succeeded.
C2_FitOnTrainingFold ==
    (Called("CV") /\ ~SplitFails(Len(sel.lengths))) =>
        /\ \A i \in 1..Len(result.folds) :
              result.folds[i].fitOn = result.folds[i].train
        /\ \A n \in Candidates(sel) :
              LET ok == {k \in 1..NSplits : Succeeded(result.own[n][k])}
                  lls == [k \in 1..NSplits |-> result.own[n][k].ll]
              IN IF ok = {} THEN n \notin Keys(result.table)
                 ELSE /\ n \in Keys(result.table)
                      /\ SameValue(result.table[ScoreOf(result.table, n)].score,
                                   Frac(SetSum(lls, ok), Cardinality(ok)))

\* C3: with exactly 1 sequence SelectorCV ends with a score table of one
\* entry, for state count 3, or none, and returns a 3-state model or None.
C3_FallbackOneEntry ==
    (Called("CV") /\ Len(sel.lengths) = 1) =>
        /\ Len(result.table) <= 1
        /\ Keys(result.table) \subseteq {FallbackStates}
        /\ result.outcome = "none" \/ result.model.states = FallbackStates

\* every candidate fit of the call failed
AllFitsFail(r) ==
    IF r.kind = "CV"
    THEN \A n \in DOMAIN r.own : \A k \in DOMAIN r.own[n] : ~r.own[n][k].fit
    ELSE \A n \in DOMAIN r.own : ~r.own[n].fit

TableKinds == {"BIC", "DIC", "CV"}

\* C5: when every candidate fit fails, select() of SelectorBIC, SelectorDIC
\* and SelectorCV returns None and does not raise; so it does when the
\* re-fit of the winning candidate fails.
C5_AllFitsFailNone ==
    (result # NoResult /\ sel.kind \in TableKinds) =>
        /\ AllFitsFail(result) => result.outcome = "none"
        /\ (result.table # <<>> /\ result.model = NoModel) => result.outcome = "none"

\* a is a better score than b for the policy
Better(kind, a, b) == IF kind = "BIC" THEN Less(a, b) ELSE Less(b, a)

\* the entries no other entry beats
Extremal(kind, table) ==
    {i \in 1..Len(table) :
        \A j \in 1..Len(table) : ~Better(kind, table[j].score, table[i].score)}

\* select() returns the re-fit of an extremal candidate, or None when the
\* re-fit fails
ReturnsExtremal(r) ==
    r.table # <<>> =>
        /\ \E i \in Extremal(r.kind, r.table) : r.pick = r.table[i].n
        /\ r.model \in {NoModel, [states |-> r.pick, fitOn |-> 1..Len(sel.lengths)]}
        /\ r.outcome = IF r.model = NoModel THEN "none" ELSE "model"

\* C6: the DIC score of a candidate is its own log-likelihood minus the sum
\* of the cached anti-likelihoods of every label other than the target,
\* divided by (number of labels - 1); a missing key adds 0; the returned
\* model is a re-fit of the candidate with the highest score.
C6_DICScore ==
    Called("DIC") =>
        /\ \A i \in 1..Len(result.table) :
              LET n == result.table[i].n
                  others == sel.words \ {sel.this_word}
                  anti == [w \in others |-> Lookup(result.ref, n, w)]
              IN SameValue(result.table[i].score,
                           Frac(result.own[n].ll * (Cardinality(sel.words) - 1)
                                    - SetSum(anti, others),
                                Cardinality(sel.words) - 1))
        /\ result.outcome # "raise" => ReturnsExtremal(result)

\* C7: SelectorBIC scores every candidate whose fit and score succeed with
\* -2*logL + p*ln(N), p = n*n + 2*d*n - 1; a failed candidate has no entry;
\* the returned model is a re-fit of the candidate with the lowest score.
C7_BICScore ==
    Called("BIC") =>
        /\ Keys(result.table) = {n \in Candidates(sel) : Succeeded(result.own[n])}
        /\ \A i \in 1..Len(result.table) :
              LET n == result.table[i].n
              IN result.table[i].score.num * 1
                    = (0 - 2) * result.own[n].ll * 1000 * result.table[i].score.den
                      + (n * n + 2 * sel.dim * n - 1) * LnMilli(Frames(sel))
                        * result.table[i].score.den
        /\ result.outcome # "raise" => ReturnsExtremal(result)

\* a BIC call where the penalty decides: the lowest score is not that of the
\* candidate with the highest likelihood
C7_Witness ==
    /\ Called("BIC") /\ result.outcome = "model" /\ Len(result.table) >= 2
    /\ Frames(sel) >= 2
    /\ \E n \in Keys(result.table) : result.own[n].ll > result.own[result.pick].ll

\* C8: among candidates that share the extremal score the smallest state
\* count is picked: the table is filled in ascending order and the first
\* extremal entry wins.
C8_TieBreak ==
    (result # NoResult /\ sel.kind \in TableKinds /\ result.table # <<>>
        /\ result.outcome # "raise") =>
        /\ Ascending(result.table)
        /\ \E i \in Extremal(sel.kind, result.table) : result.pick = result.table[i].n
        /\ \A i \in Extremal(sel.kind, result.table) : result.pick <= result.table[i].n

\* a cross-validation over real folds where two candidates tie for the best
\* mean and there is a worse third value or not
C8_Witness ==
    /\ Called("CV") /\ ~SplitFails(Len(sel.lengths))
    /\ Cardinality(Extremal("CV", result.table)) >= 2
    /\ result.outcome = "model"

\* C9 as stated: at most R fits for BIC, R times the fold count for CV, and
\* for DIC R plus R times the number of labels when the cache is absent,
\* the re-fit included.
C9_FitBoundAsStated ==
    result # NoResult =>
        CASE sel.kind = "BIC" -> result.fits <= R(sel)
          [] sel.kind = "CV" -> result.fits <= R(sel) * NSplits
          [] sel.kind = "DIC" ->
               result.fits <= R(sel) + (IF result.loaded THEN 0
                                        ELSE R(sel) * Cardinality(sel.words))
          [] OTHER -> TRUE

\* C9, amended: the re-fit of the winner is one more call of base_model:
\* at most R + 1 for BIC, 2R + 1 for CV, and for DIC R + 1 plus, when the
\* cache is absent, R times the number of labels.
C9_FitBound ==
    result # NoResult =>
        CASE sel.kind = "BIC" -> result.fits <= R(sel) + 1
          [] sel.kind = "CV" -> result.fits <= R(sel) * NSplits + 1
          [] sel.kind = "DIC" ->
               /\ result.loaded => result.buildFits = 0
               /\ result.fits <= R(sel) + 1 + (IF result.loaded THEN 0
                                               ELSE R(sel) * Cardinality(sel.words))
          [] OTHER -> result.fits <= 1

\* a DIC call that builds the cache and reaches the bound
C9_Witness ==
    /\ Called("DIC") /\ ~result.loaded /\ R(sel) >= 2 /\ Cardinality(sel.words) >= 2
    /\ result.fits = R(sel) + 1 + R(sel) * Cardinality(sel.words)

\* C4: from no cache file, over non-overlapping SelectorDIC.select() calls the
\* cache is built and written exactly once, by the first call; a later call
\* loads the file, fits nothing for the cache, writes nothing and reads the
\* values the first call stored.
C4_CacheBuiltOnce ==
    /\ [](/\ saves <= 1
          /\ saves = 0 <=> cacheFile = Absent
          /\ saves = 1 <=> LoadOK(cacheFile)
          /\ Called("DIC") =>
                /\ LoadOK(cacheFile) /\ result.ref = cacheFile.data
                /\ result.loaded => result.buildFits = 0
                /\ ~result.loaded => result.buildFits = BuildFits(sel))
    /\ [][cacheFile # Absent => cacheFile' = cacheFile /\ saves' = saves]_vars

\* a later call for another target label and a wider corpus and range than
\* the call that built the cache: a key it reads was stored for another
\* target, a key it asks for is missing
C4_Witness ==
    /\ Called("DIC") /\ result.loaded /\ result.outcome = "model"
    /\ \E n \in Candidates(sel), w \in sel.words :
          /\ Key(n, w) \in DOMAIN result.ref
          /\ result.ref[Key(n, w)] # 0
          /\ result.ref[Key(n, w)] # LibScore(sel.this_word, n, w)
    /\ \E n \in Candidates(sel), w \in sel.words : Key(n, w) \notin DOMAIN result.ref

\* C10: two concurrent calls that both find no loadable cache file both build
\* the cache and both write the file: it is written twice and ends with the
\* content of the last writer, built from that writer's target label.
C10_RaceWritesTwice ==
    (\A p \in Procs : pc[p] = "done" /\ ~rres[p].loaded) =>
        /\ saves = Cardinality(Procs)
        /\ lastWriter \in Procs
        /\ cacheFile = Saved(rref[lastWriter])
        /\ \A k \in DOMAIN cacheFile.data :
              cacheFile.data[k] \in {0, LibScore(rsel[lastWriter].this_word, k[1], k[2])}

\* both calls built and wrote, and one of them scored with cache values that
\* are not the ones left on disk
C10_Witness ==
    /\ \A p \in Procs : pc[p] = "done" /\ ~rres[p].loaded
    /\ \E p \in Procs :
          /\ rref[p] # cacheFile.data
          /\ rres[p].outcome = "model"
          /\ \E k \in DOMAIN rref[p] : rref[p][k] # 0 /\ cacheFile.data[k] # 0

====
